---- MODULE Spec2Model ----
(***************************************************************************)
(* A model of TheBetterLibraries.py, a Streamlit script.  Streamlit runs   *)
(* the whole script again on every user interaction; st.session_state is   *)
(* the only state that survives a run.  One run is: read the sidebar       *)
(* (line 32-46), on a pressed "Fetch Data" button fetch every ticker and   *)
(* store the result (108-121), then, if the store is non-empty, analyse    *)
(* every stored ticker and show the summary (126-234).  An exception that  *)
(* nothing catches ends the run; the session state stays as it was.        *)
(*                                                                         *)
(* Python values are modelled as follows.  A dict is the sequence of its   *)
(* [k, v] items in insertion order.  A pandas cell is <<>> when missing    *)
(* (NaN, NaT) and <<n>> when it holds the number n.  A DataFrame is        *)
(* [rows, VWAP]: its rows in index order (columns Date, Close, Volume;     *)
(* Open, High and Low are carried like Close and read by no claim) and     *)
(* the VWAP column (<<>> while the column does not exist).  A quotient is  *)
(* kept exact as <<numerator, denominator>>.  A model reply is a sequence  *)
(* of tokens: "{", "}", ",", a run of brace-free text "w", or a           *)
(* "key": "value" pair.                                                    *)
(***************************************************************************)
EXTENDS Integers, Sequences, FiniteSets, TLC

VARIABLES
  tickers,        \* line 33: the parsed ticker list of this run
  indicators,     \* line 42: the selected indicators of this run
  pressed,        \* line 108: whether this run is a "Fetch Data" run
  session_state,  \* st.session_state, a dict with at most the key "stock_data"
  stock_data,     \* line 109: the fetch handler's local dict
  fi,             \* line 110: position of the fetch loop in tickers (1-based)
  resp,           \* line 68-70: the HTTP outcome of the latest fetch
  messages,       \* st.warning / st.success / st.info calls of this run, as
                  \* <<message, ticker>> (ticker "" for a message about the run)
  pc,             \* position of the script run
  exc,            \* the exception that ended this run, NoExc if none
  ai,             \* line 219: position of the analysis loop (1-based)
  response,       \* line 191: the outcome of the latest generate_content call
  result,         \* line 221: the verdict of the latest analyze_ticker call
  overall_results,\* line 216
  shown,          \* line 234: the summary table shown in this run
  tmpfiles        \* temporary PNG files left on disk (line 167-173)

vars == <<tickers, indicators, pressed, session_state, stock_data, fi, resp,
          messages, pc, exc, ai, response, result, overall_results,
          shown, tmpfiles>>

(***************************************************************************)
(* Bounds of the model.                                                    *)
(***************************************************************************)
MaxTickers == 2
MaxBars == 2
MaxDate == 2
MaxText == 5
MaxTmp == 2

Symbols == {"AAPL", "MSFT"}
NoExc == "none"

(***************************************************************************)
(* Python helpers.                                                         *)
(***************************************************************************)
NaN == <<>>
IsNaN(c) == c = <<>>
Num(n) == <<n>>
Val(c) == c[1]

Range(s) == {s[i] : i \in 1..Len(s)}
SeqsUpTo(S, n) == UNION {[1..m -> S] : m \in 0..n}

\* dict operations on the item sequence
DictHas(d, k) == \E i \in 1..Len(d) : d[i].k = k
DictIndex(d, k) == CHOOSE i \in 1..Len(d) : d[i].k = k
DictGet(d, k) == d[DictIndex(d, k)].v
DictGetOr(d, k, default) == IF DictHas(d, k) THEN DictGet(d, k) ELSE default
DictSet(d, k, v) ==
  IF DictHas(d, k)
  THEN [d EXCEPT ![DictIndex(d, k)] = [k |-> k, v |-> v]]
  ELSE Append(d, [k |-> k, v |-> v])
DictKeys(d) == [i \in 1..Len(d) |-> d[i].k]

\* str.find / str.rfind on a token sequence: 0-based position, -1 when absent
find(text, tok) ==
  IF \E i \in 1..Len(text) : text[i] = tok
  THEN (CHOOSE i \in 1..Len(text) :
          text[i] = tok /\ \A j \in 1..(i - 1) : text[j] # tok) - 1
  ELSE -1
rfind(text, tok) ==
  IF \E i \in 1..Len(text) : text[i] = tok
  THEN (CHOOSE i \in 1..Len(text) :
          text[i] = tok /\ \A j \in (i + 1)..Len(text) : text[j] # tok) - 1
  ELSE -1
\* text[a:b] for 0 <= a, 0 <= b
Slice(text, a, b) == SubSeq(text, a + 1, IF b > Len(text) THEN Len(text) ELSE b)

(***************************************************************************)
(* fetch_fmp_data, line 51-103.                                            *)
(***************************************************************************)
EmptyFrame == [rows |-> <<>>, VWAP |-> <<>>]
Empty(df) == Len(df.rows) = 0

\* pd.to_datetime on a JSON value: an ISO date string is day n, null is NaT
to_datetime(raw) == IF raw.json = "string" THEN Num(raw.n) ELSE NaN
\* pd.to_numeric(errors="coerce"): a JSON number is kept, anything else is NaN
to_numeric(raw) == IF raw.json = "number" THEN Num(raw.n) ELSE NaN

\* line 81-95: one row of the frame from one item of "historical"
Row(bar) ==
  [Date |-> to_datetime(bar.date),
   Close |-> to_numeric(bar.close),
   Volume |-> to_numeric(bar.volume)]

\* Date order of sort_values: ascending, missing dates last
DateLeq(a, b) == IsNaN(b) \/ (~IsNaN(a) /\ Val(a) <= Val(b))
IndexPermutations(n) == {p \in [1..n -> 1..n] : \A i, j \in 1..n : i # j => p[i] # p[j]}

\* sort_values as it would be with the sort left out
sort_values_omitted(rows) == {rows}

\* line 98: sort_values("Date") with the default, unstable, quicksort: every
\* arrangement of the rows that is in Date order is a possible outcome
sort_values(rows) ==
  {[i \in 1..Len(rows) |-> rows[p[i]]] : p \in
     {q \in IndexPermutations(Len(rows)) :
        \A i \in 1..(Len(rows) - 1) : DateLeq(rows[q[i]].Date, rows[q[i + 1]].Date)}}

\* What a call can do: the exception it raises (NoExc if it returns), whether it
\* called st.warning (line 72), and the frames it can return
fetch_fmp_data(r) ==
  IF r.kind \in {"ConnectionError", "HTTPError", "NotJSON"}
  THEN [raises |-> NoExc, warned |-> TRUE, frames |-> {EmptyFrame}]
  ELSE IF r.kind = "NonObject"
  THEN \* line 76: data_json.get on a list, a string, a number or None
       [raises |-> "AttributeError", warned |-> FALSE, frames |-> {EmptyFrame}]
  ELSE IF ~r.has_historical \/ Len(r.historical) = 0
  THEN [raises |-> NoExc, warned |-> FALSE, frames |-> {EmptyFrame}]
  ELSE [raises |-> NoExc, warned |-> FALSE,
        frames |-> {[rows |-> s, VWAP |-> <<>>] :
                      s \in sort_values([i \in 1..Len(r.historical) |-> Row(r.historical[i])])}]

(***************************************************************************)
(* add_indicator, line 141-159.  SMA, EMA and Bollinger Bands add traces   *)
(* to the figure only; VWAP also writes the column data["VWAP"] into the   *)
(* stored frame.                                                           *)
(***************************************************************************)
RECURSIVE SumTo(_, _)
\* the sum of the cells of col[1..i] that are not missing
SumTo(col, i) ==
  IF i = 0 THEN 0
  ELSE SumTo(col, i - 1) + (IF IsNaN(col[i]) THEN 0 ELSE Val(col[i]))

\* Series.cumsum(), skipna=True: a missing cell stays missing and is skipped
cumsum(col) == [i \in 1..Len(col) |-> IF IsNaN(col[i]) THEN NaN ELSE Num(SumTo(col, i))]
\* Series * Series
Mul(a, b) == IF IsNaN(a) \/ IsNaN(b) THEN NaN ELSE Num(Val(a) * Val(b))
\* Series / Series, kept exact; 0/0 is NaN
Div(a, b) ==
  IF IsNaN(a) \/ IsNaN(b) THEN NaN
  ELSE IF Val(a) = 0 /\ Val(b) = 0 THEN NaN
  ELSE <<Val(a), Val(b)>>

\* line 158
VWAP(rows) ==
  LET cv == cumsum([i \in 1..Len(rows) |-> Mul(rows[i].Close, rows[i].Volume)])
      v == cumsum([i \in 1..Len(rows) |-> rows[i].Volume])
  IN  [i \in 1..Len(rows) |-> Div(cv[i], v[i])]

\* line 161-162: the frame after every selected indicator was applied
add_indicators(data, inds) ==
  IF "VWAP" \in inds THEN [data EXCEPT !.VWAP = VWAP(data.rows)] ELSE data

(***************************************************************************)
(* The reply parser of analyze_ticker, line 194-208.                       *)
(***************************************************************************)
PairTokens == {"action:Buy", "action:Maybe", "justification:uptrend"}
PairKey(tok) == IF tok = "justification:uptrend" THEN "justification" ELSE "action"
PairVal(tok) ==
  CASE tok = "action:Buy" -> "Buy"
    [] tok = "action:Maybe" -> "Maybe"
    [] OTHER -> "uptrend"

RECURSIVE JsonObject(_, _)
\* the dict of the pairs at the odd places of inner, from place i on, added to d:
\* a repeated key keeps its first place and its last value, as json.loads does
JsonObject(inner, d) ==
  IF Len(inner) = 0 THEN d
  ELSE JsonObject(SubSeq(inner, 3, Len(inner)),
                  DictSet(d, PairKey(inner[1]), PairVal(inner[1])))

\* json.loads (line 200) on a span of tokens: "{", pairs separated by ",", "}"
json_loads(span) ==
  LET inner == SubSeq(span, 2, Len(span) - 1)
      valid == /\ Len(span) >= 2
               /\ span[1] = "{"
               /\ span[Len(span)] = "}"
               /\ (Len(inner) = 0 \/ Len(inner) % 2 = 1)
               /\ \A i \in 1..Len(inner) :
                    IF i % 2 = 1 THEN inner[i] \in PairTokens ELSE inner[i] = ","
  IN  [ok |-> valid, obj |-> IF valid THEN JsonObject(inner, <<>>) ELSE <<>>]

json_start_index(text) == find(text, "{")
\* json_end_index as it would be without the + 1: the span loses its "}"
json_end_index_exclusive(text) == rfind(text, "}")
json_end_index(text) == rfind(text, "}") + 1

\* line 204, 206: the verdict of an except clause
ErrorVerdict(why) ==
  <<[k |-> "action", v |-> "Error"], [k |-> "justification", v |-> why]>>

\* ParseReply as it would be with the except clause of line 205 missing: the
\* ValueError of line 202 leaves analyze_ticker
ParseReply_ValueErrorUncaught(r) ==
  IF r.kind = "no_text"
  THEN [raises |-> "ValueError", result |-> <<>>]
  ELSE IF json_start_index(r.text) # -1 /\ json_end_index(r.text) > json_start_index(r.text)
  THEN LET loaded == json_loads(Slice(r.text, json_start_index(r.text), json_end_index(r.text)))
       IN  IF loaded.ok
           THEN [raises |-> NoExc, result |-> loaded.obj]
           ELSE [raises |-> NoExc, result |-> ErrorVerdict("JSON Parsing error")]
  ELSE [raises |-> "ValueError", result |-> <<>>]

\* line 194-208 on a generate_content outcome that returned: the exception that
\* leaves analyze_ticker (NoExc if none) and the verdict
ParseReply(r) ==
  IF r.kind = "no_text"
  THEN \* response.text raises ValueError at line 195; the handler at line 206
       \* reads response.text again and the ValueError leaves the handler
       [raises |-> "ValueError", result |-> <<>>]
  ELSE IF json_start_index(r.text) # -1 /\ json_end_index(r.text) > json_start_index(r.text)
  THEN LET loaded == json_loads(Slice(r.text, json_start_index(r.text), json_end_index(r.text)))
       IN  IF loaded.ok
           THEN [raises |-> NoExc, result |-> loaded.obj]
           ELSE [raises |-> NoExc, result |-> ErrorVerdict("JSON Parsing error")]
  ELSE [raises |-> NoExc, result |-> ErrorVerdict("Value Error")]

\* Recommendation as it would be with "Error" as the default of line 222
Recommendation_DefaultError(verdict) == DictGetOr(verdict, "action", "Error")
\* line 222
Recommendation(verdict) == DictGetOr(verdict, "action", "N/A")

(***************************************************************************)
(* The script run.                                                         *)
(***************************************************************************)
NoResp == [kind |-> "none", has_historical |-> FALSE, historical |-> <<>>]
NoResponse == [kind |-> "none", text |-> <<>>]
\* line 32: the default of the ticker input
DefaultTickers == <<"AAPL", "MSFT", "GOOG">>
\* line 45: the default of the indicator selection
DefaultIndicators == {"20-Day SMA"}

\* st.session_state["stock_data"], <<>> while the key is not set
Stored == DictGetOr(session_state, "stock_data", <<>>)

Init ==
  \* the page was loaded: one run with the defaults, no button pressed (line 237)
  /\ tickers = DefaultTickers
  /\ indicators = DefaultIndicators
  /\ pressed = FALSE
  /\ session_state = <<>>
  /\ stock_data = <<>>
  /\ fi = 1
  /\ resp = NoResp
  /\ messages = {<<"Please fetch stock data", "">>}
  /\ pc = "idle"
  /\ exc = NoExc
  /\ ai = 1
  /\ response = NoResponse
  /\ result = <<>>
  /\ overall_results = <<>>
  /\ shown = <<>>
  /\ tmpfiles = 0

\* A user interaction starts a run of the script: the sidebar is read (line 32-46)
\* and the locals of the earlier run are gone
Rerun(ts, inds, button) ==
  /\ pc = "idle"
  /\ tickers' = ts
  /\ indicators' = inds
  /\ pressed' = button
  /\ stock_data' = <<>>
  /\ fi' = 1
  /\ resp' = NoResp
  /\ messages' = {}
  /\ exc' = NoExc
  /\ ai' = 1
  /\ response' = NoResponse
  /\ result' = <<>>
  /\ overall_results' = <<>>
  /\ shown' = <<>>
  /\ pc' = IF button THEN "fetch" ELSE "guard"
  /\ UNCHANGED <<session_state, tmpfiles>>

\* line 110: the fetch loop has a ticker left
Fetching == pc = "fetch" /\ fi <= Len(tickers)

\* line 110-115: one pass of the fetch loop, r being what the HTTP request gave
FetchTicker(r) ==
  /\ Fetching
  /\ resp' = r
  /\ LET out == fetch_fmp_data(r)
         t == tickers[fi]
     IN  IF out.raises # NoExc
         THEN /\ exc' = out.raises
              /\ pc' = "idle"
              /\ UNCHANGED <<stock_data, fi, messages>>
         ELSE /\ \E df \in out.frames :
                   /\ stock_data' = IF Empty(df) THEN stock_data ELSE DictSet(stock_data, t, df)
                   /\ messages' = messages
                        \cup (IF out.warned THEN {<<"Error fetching data", t>>} ELSE {})
                        \cup (IF Empty(df) THEN {<<"No data found", t>>} ELSE {})
              /\ fi' = fi + 1
              /\ UNCHANGED <<exc, pc>>
  /\ UNCHANGED <<tickers, indicators, pressed, session_state, ai, response, result,
                 overall_results, shown, tmpfiles>>

\* line 117-121: the end of the fetch handler
StoreFetched ==
  /\ pc = "fetch"
  /\ fi > Len(tickers)
  /\ session_state' = DictSet(session_state, "stock_data", stock_data)
  /\ messages' = messages \cup
       {IF Len(stock_data) > 0 THEN <<"Stock data loaded successfully", "">>
                               ELSE <<"No stock data loaded", "">>}
  /\ pc' = "guard"
  /\ UNCHANGED <<tickers, indicators, pressed, stock_data, fi, resp, exc, ai, response,
                 result, overall_results, shown, tmpfiles>>

\* line 126, 213-216, 236-237
Guard ==
  /\ pc = "guard"
  /\ IF DictHas(session_state, "stock_data") /\ Len(Stored) > 0
     THEN /\ pc' = "analyze"
          /\ UNCHANGED messages
     ELSE /\ pc' = "idle"
          /\ messages' = messages \cup {<<"Please fetch stock data", "">>}
  /\ ai' = 1
  /\ overall_results' = <<>>
  /\ UNCHANGED <<tickers, indicators, pressed, session_state, stock_data, fi, resp, exc,
                 response, result, shown, tmpfiles>>

\* line 219: the analysis loop has a ticker left
Analyzing == pc = "analyze" /\ ai <= Len(Stored)

\* line 219-228: one pass of the analysis loop.  render is what happened to the
\* temporary file (line 167-173), gen what generate_content did (line 191)
AnalyzeTicker(render, gen) ==
  /\ Analyzing
  /\ render # "ok" => tmpfiles < MaxTmp
  /\ LET ticker == Stored[ai].k
         data == add_indicators(Stored[ai].v, indicators)
         parsed == ParseReply(gen)
     IN  /\ session_state' =
              DictSet(session_state, "stock_data", DictSet(Stored, ticker, data))
         /\ IF render # "ok"
            THEN \* NamedTemporaryFile(delete=False) made the file; write_image
                 \* (168) or the read (171-172) raised; os.remove (173) is not reached
                 /\ tmpfiles' = tmpfiles + 1
                 /\ exc' = render
                 /\ pc' = "idle"
                 /\ UNCHANGED <<response, result, overall_results, ai>>
            ELSE IF gen.kind = "raises"
            THEN \* line 191 is outside the try of line 194
                 /\ response' = gen
                 /\ exc' = "GenerateContentError"
                 /\ pc' = "idle"
                 /\ UNCHANGED <<result, overall_results, ai, tmpfiles>>
            ELSE IF parsed.raises # NoExc
            THEN /\ response' = gen
                 /\ exc' = parsed.raises
                 /\ pc' = "idle"
                 /\ UNCHANGED <<result, overall_results, ai, tmpfiles>>
            ELSE /\ response' = gen
                 /\ result' = parsed.result
                 /\ overall_results' = Append(overall_results,
                      [Stock |-> ticker, Recommendation |-> Recommendation(parsed.result)])
                 /\ ai' = ai + 1
                 /\ UNCHANGED <<exc, pc, tmpfiles>>
  /\ UNCHANGED <<tickers, indicators, pressed, stock_data, fi, resp, messages, shown>>

\* line 231-234
ShowSummary ==
  /\ pc = "analyze"
  /\ ai > Len(Stored)
  /\ shown' = overall_results
  /\ pc' = "idle"
  /\ UNCHANGED <<tickers, indicators, pressed, session_state, stock_data, fi, resp,
                 messages, exc, ai, response, result, overall_results, tmpfiles>>

(***************************************************************************)
(* The environment: what the user enters and what the two services answer. *)
(***************************************************************************)
TickerLists == SeqsUpTo(Symbols, MaxTickers) \cup {DefaultTickers}

JsonDate(d) == [json |-> "string", n |-> d]
JsonNumber(n) == [json |-> "number", n |-> n]
JsonNull == [json |-> "null", n |-> 0]
\* a JSON string that is no number, such as "n/a"
JsonText == [json |-> "string", n |-> 0]
Bar(d, c, v) == [date |-> d, close |-> c, volume |-> v]

Failed(kind) == [kind |-> kind, has_historical |-> FALSE, historical |-> <<>>]
Body(bars) == [kind |-> "Object", has_historical |-> TRUE, historical |-> bars]

\* the answers of the market-data service in Spec: every kind of failure, and two
\* payloads, one of them newest first as the service sends it
Responses ==
  {Failed("ConnectionError"), Failed("HTTPError"), Failed("NotJSON"),
   Failed("NonObject"), Failed("Object"), Body(<<>>),
   Body(<<Bar(JsonDate(2), JsonNumber(3), JsonNumber(1)),
          Bar(JsonDate(1), JsonNumber(1), JsonNumber(2))>>),
   Body(<<Bar(JsonDate(1), JsonNumber(2), JsonNumber(1))>>)}

Said(text) == [kind |-> "text", text |-> text]
\* the outcomes of generate_content in Spec
Replies ==
  {[kind |-> "raises", text |-> <<>>],
   [kind |-> "no_text", text |-> <<>>],
   Said(<<"w">>),
   Said(<<"{", "justification:uptrend", "}">>),
   Said(<<"w", "{", "action:Buy", ",", "justification:uptrend", "}", "w">>)}

Renders == {"ok", "WriteImageError", "ReadError"}

Next ==
  \/ (pc = "idle" /\ \E ts \in TickerLists, button \in BOOLEAN :
                        Rerun(ts, DefaultIndicators, button))
  \/ (Fetching /\ \E r \in Responses : FetchTicker(r))
  \/ StoreFetched
  \/ Guard
  \/ (Analyzing /\ \E render \in Renders, gen \in Replies : AnalyzeTicker(render, gen))
  \/ ShowSummary

Spec == Init /\ [][Next]_vars

(***************************************************************************)
(* SpecSeries: the first fetch-and-analyse cycle of a session, with one    *)
(* ticker, VWAP selected, and every payload of up to MaxBars bars whose    *)
(* dates, closes and volumes are drawn from small sets.                    *)
(***************************************************************************)
SeriesTickers == <<"AAPL">>
Dates == {JsonDate(d) : d \in 1..MaxDate} \cup {JsonNull}
Closes == {JsonNumber(1), JsonNumber(3), JsonText}
Volumes == {JsonNumber(0), JsonNumber(1)}
Bars == {Bar(d, c, v) : d \in Dates, c \in Closes, v \in Volumes}
SeriesResponses == {Body(bars) : bars \in SeqsUpTo(Bars, MaxBars)}
GoodReply == Said(<<"{", "action:Buy", ",", "justification:uptrend", "}">>)

NextSeries ==
  \/ (session_state = <<>> /\ Rerun(SeriesTickers, {"VWAP"}, TRUE))
  \/ (Fetching /\ \E r \in SeriesResponses : FetchTicker(r))
  \/ StoreFetched
  \/ Guard
  \/ AnalyzeTicker("ok", GoodReply)
  \/ ShowSummary

SpecSeries == Init /\ [][NextSeries]_vars

(***************************************************************************)
(* SpecParse: one ticker with data, and every reply text of up to MaxText  *)
(* tokens.                                                                 *)
(***************************************************************************)
ParseTickers == <<"AAPL">>
GoodResponse == Body(<<Bar(JsonDate(1), JsonNumber(2), JsonNumber(1))>>)
Alphabet == {"{", "}", ",", "w"} \cup PairTokens
Texts == SeqsUpTo(Alphabet, MaxText)

NextParse ==
  \/ Rerun(ParseTickers, DefaultIndicators, TRUE)
  \/ FetchTicker(GoodResponse)
  \/ StoreFetched
  \/ Guard
  \/ (Analyzing /\ \E text \in Texts : AnalyzeTicker("ok", Said(text)))
  \/ ShowSummary

SpecParse == Init /\ [][NextParse]_vars

(***************************************************************************)
(* Definitions the claims are stated with.  They describe replies and      *)
(* series on their own terms, not through the operators of the model.      *)
(***************************************************************************)
Labels == {"Strong Buy", "Buy", "Weak Buy", "Hold", "Weak Sell", "Sell", "Strong Sell"}

SetMin(S) == CHOOSE x \in S : \A y \in S : x <= y
SetMax(S) == CHOOSE x \in S : \A y \in S : y <= x

OpenPlaces(text) == {i \in 1..Len(text) : text[i] = "{"}
ClosePlaces(text) == {i \in 1..Len(text) : text[i] = "}"}

\* the text of a JSON object with the pairs ps
Serialise(ps) ==
  <<"{">> \o [i \in 1..(2 * Len(ps) - 1) |-> IF i % 2 = 1 THEN ps[(i + 1) \div 2] ELSE ","]
         \o <<"}">>
\* the pair lists whose text has n tokens: n = 2 + k + (k - 1) for k > 0 pairs
PairLists(n) ==
  IF n = 2 THEN {<<>>}
  ELSE IF n >= 3 /\ n % 2 = 1 THEN [1..((n - 1) \div 2) -> PairTokens]
  ELSE {}
WellFormed(span) == \E ps \in PairLists(Len(span)) : span = Serialise(ps)
PairsOf(span) == CHOOSE ps \in PairLists(Len(span)) : span = Serialise(ps)
KeysOf(ps) == {PairKey(ps[i]) : i \in 1..Len(ps)}
\* a repeated key has the value of its last pair
ValueOf(ps, key) == PairVal(ps[SetMax({i \in 1..Len(ps) : PairKey(ps[i]) = key})])
\* the dict d has the keys and values of the object with the pairs ps, and no more
SameObject(d, ps) ==
  /\ {d[i].k : i \in 1..Len(d)} = KeysOf(ps)
  /\ Len(d) = Cardinality(KeysOf(ps))
  /\ \A i \in 1..Len(d) : d[i].v = ValueOf(ps, d[i].k)

\* the span from the first "{" to the last "}" exists
HasSpan(text) ==
  /\ OpenPlaces(text) # {}
  /\ ClosePlaces(text) # {}
  /\ SetMin(OpenPlaces(text)) < SetMax(ClosePlaces(text))
SpanOf(text) == SubSeq(text, SetMin(OpenPlaces(text)), SetMax(ClosePlaces(text)))
Unparseable(text) == ~HasSpan(text) \/ ~WellFormed(SpanOf(text))

\* the places <<a, b>> of the well-formed objects text[a+1..b] in text
Embedded(text) ==
  {ab \in (0..Len(text)) \X (0..Len(text)) :
     ab[1] + 2 <= ab[2] /\ WellFormed(SubSeq(text, ab[1] + 1, ab[2]))}
Before(text, ab) == SubSeq(text, 1, ab[1])
Object(text, ab) == SubSeq(text, ab[1] + 1, ab[2])
After(text, ab) == SubSeq(text, ab[2] + 1, Len(text))

Replied == response.kind = "text"

(***************************************************************************)
(* Claims on the reply parser, under SpecParse.                            *)
(***************************************************************************)

\* C5: a reply text with no parseable JSON object (no "{", no "}", the last "}"
\* before the first "{", or a span that is no JSON) gives the verdict
\* {action: "Error", justification: diagnostic}; no exception leaves
\* analyze_ticker and the run goes on to the summary with that ticker's row.
C5_UnparseableReplyDegradesToError ==
  (Replied /\ Unparseable(response.text)) =>
     /\ exc = NoExc
     /\ result = ErrorVerdict(IF HasSpan(response.text) THEN "JSON Parsing error"
                                                       ELSE "Value Error")
     /\ pc \in {"analyze", "idle"}
     /\ ai = Len(overall_results) + 1
     /\ overall_results[ai - 1] = [Stock |-> Stored[ai - 1].k, Recommendation |-> "Error"]
     /\ (pc = "idle" => shown = overall_results)

C5_Witness ==
  /\ Replied
  /\ HasSpan(response.text)
  /\ Unparseable(response.text)
  /\ pc = "idle"
  /\ shown = <<[Stock |-> "AAPL", Recommendation |-> "Error"]>>

\* C6, as claimed: whenever a reply holds one well-formed JSON object, whatever
\* the text around it, the verdict is that object.
C6_EmbeddedObjectIsTheVerdict ==
  (Replied /\ Cardinality(Embedded(response.text)) = 1) =>
     \A ab \in Embedded(response.text) :
        exc = NoExc /\ SameObject(result, PairsOf(Object(response.text, ab)))

\* C6, amended: the parser reads the span from the first "{" to the last "}": a
\* well-formed JSON object with no "{" before it and no "}" after it is the
\* verdict, with the object's keys and values and nothing else.
C6_ObjectFromFirstOpenToLastClose ==
  Replied =>
     \A ab \in Embedded(response.text) :
        (/\ OpenPlaces(Before(response.text, ab)) = {}
         /\ ClosePlaces(After(response.text, ab)) = {})
        => (exc = NoExc /\ SameObject(result, PairsOf(Object(response.text, ab))))

C6_Witness ==
  /\ Replied
  /\ response.text = <<"w", "{", "action:Buy", "}", "w">>
  /\ result = <<[k |-> "action", v |-> "Buy"]>>

\* C7, as claimed: every action in the results and in the summary table is one
\* of the seven labels or "Error".
C7_ActionIsLabelOrError ==
  /\ \A i \in 1..Len(overall_results) :
        overall_results[i].Recommendation \in Labels \cup {"Error"}
  /\ \A i \in 1..Len(shown) : shown[i].Recommendation \in Labels \cup {"Error"}

ActionValues == {PairVal(tok) : tok \in {t \in PairTokens : PairKey(t) = "action"}}

\* C7, amended: the action recorded and shown is "Error" when no JSON object
\* could be parsed from the reply, else the value the reply's object has for
\* "action", whatever it is, and "N/A" when the object has no "action"; it is
\* one of the seven labels only when the reply's object carries one.
C7_ActionIsWhatTheReplyCarries ==
  /\ \A i \in 1..Len(overall_results) :
        overall_results[i].Recommendation \in ActionValues \cup {"Error", "N/A"}
  /\ (pc = "idle" /\ shown # <<>>) => shown = overall_results
  /\ (Replied /\ exc = NoExc) =>
       LET shownAction == overall_results[ai - 1].Recommendation
           ps == PairsOf(SpanOf(response.text))
       IN  /\ ai = Len(overall_results) + 1
           /\ shownAction =
                IF Unparseable(response.text) THEN "Error"
                ELSE IF "action" \in KeysOf(ps) THEN ValueOf(ps, "action")
                ELSE "N/A"
           /\ shownAction \in Labels <=>
                /\ ~Unparseable(response.text)
                /\ "action" \in KeysOf(ps)
                /\ ValueOf(ps, "action") \in Labels

C7_Witness ==
  /\ pc = "idle"
  /\ shown = <<[Stock |-> "AAPL", Recommendation |-> "Maybe"]>>

(***************************************************************************)
(* Claims on the fetched series, under SpecSeries.                         *)
(***************************************************************************)
Present(c) == c # <<>>
\* the frames the fetch handler holds and the frames in the session
Frames ==
  {stock_data[i].v : i \in 1..Len(stock_data)} \cup {Stored[i].v : i \in 1..Len(Stored)}
Occurrences(rows, row) == Cardinality({i \in 1..Len(rows) : rows[i] = row})
\* what the latest response holds, as rows
ResponseRows == [i \in 1..Len(resp.historical) |-> Row(resp.historical[i])]

\* C3, as claimed: every fetched series is strictly ascending by date and has
\* no date twice.
C3_StrictlyAscendingNoDuplicateDates ==
  \A df \in Frames : \A i, j \in 1..Len(df.rows) :
     (i < j /\ Present(df.rows[i].Date) /\ Present(df.rows[j].Date))
        => Val(df.rows[i].Date) < Val(df.rows[j].Date)

\* C3, amended: every fetched series holds exactly the bars of the response,
\* in ascending date order with the bars that have no date last; bars that
\* share a date are all kept, so the dates are strictly ascending exactly when
\* no date occurs twice in the response.
C3_AscendingAndKeepsEveryBar ==
  \A df \in Frames :
     /\ \A i, j \in 1..Len(df.rows) : i < j =>
           /\ Present(df.rows[j].Date) => Present(df.rows[i].Date)
           /\ (Present(df.rows[i].Date) /\ Present(df.rows[j].Date))
                 => Val(df.rows[i].Date) <= Val(df.rows[j].Date)
     /\ Len(df.rows) = Len(ResponseRows)
     /\ \A i \in 1..Len(ResponseRows) :
           Occurrences(df.rows, ResponseRows[i]) = Occurrences(ResponseRows, ResponseRows[i])
     /\ (\A i, j \in 1..Len(df.rows) :
            (i < j /\ Present(df.rows[i].Date) /\ Present(df.rows[j].Date))
               => Val(df.rows[i].Date) < Val(df.rows[j].Date))
        <=> (\A i, j \in 1..Len(ResponseRows) :
               (i # j /\ Present(ResponseRows[i].Date))
                  => ResponseRows[i].Date # ResponseRows[j].Date)

C3_Witness ==
  /\ Len(stock_data) = 1
  /\ Len(resp.historical) = 2
  /\ resp.historical[1].date = JsonDate(2)
  /\ resp.historical[2].date = JsonDate(1)
  /\ stock_data[1].v.rows[1].Date = Num(1)
  /\ stock_data[1].v.rows[2].Date = Num(2)

\* the closes seen in rows[1..i]
ClosesUpTo(rows, i) == {Val(rows[j].Close) : j \in {n \in 1..i : Present(rows[n].Close)}}
\* a quotient that is a number
Defined(q) == Len(q) = 2 /\ q[2] > 0

\* C8: in a series (of bars with ascending dates) whose every Volume is >= 0, the VWAP at every
\* date where it is defined lies between the lowest and the highest Close seen
\* up to that date.
C8_VWAPWithinCloseRange ==
  \A n \in 1..Len(Stored) :
     LET rows == Stored[n].v.rows
         vwap == Stored[n].v.VWAP
     IN  (\A i \in 1..Len(rows) :
             /\ Present(rows[i].Date)
             /\ i > 1 => Val(rows[i - 1].Date) < Val(rows[i].Date)
             /\ Present(rows[i].Volume)
             /\ Val(rows[i].Volume) >= 0)
         => \A i \in 1..Len(vwap) :
               Defined(vwap[i]) =>
                  /\ ClosesUpTo(rows, i) # {}
                  /\ SetMin(ClosesUpTo(rows, i)) * vwap[i][2] <= vwap[i][1]
                  /\ vwap[i][1] <= SetMax(ClosesUpTo(rows, i)) * vwap[i][2]

(***************************************************************************)
(* Claims on the run, under Spec.                                          *)
(***************************************************************************)
\* a fetch that failed: transport error, HTTP status, a body that is not the
\* expected JSON object, or a body with no "historical"
FetchFailure(r) ==
  \/ r.kind \in {"ConnectionError", "HTTPError", "NotJSON", "NonObject"}
  \/ r.kind = "Object" /\ ~r.has_historical

\* C1: whatever way the fetch of a ticker fails, no series is added for it, a
\* warning about it is emitted, and the fetch loop goes on with the next ticker.
C1_FetchFailureNeverAborts ==
  [][(Fetching /\ FetchFailure(resp')) =>
        /\ exc' = NoExc
        /\ pc' = "fetch"
        /\ fi' = fi + 1
        /\ stock_data' = stock_data
        /\ \E m \in messages' : m[2] = tickers[fi]]_vars

KeySet(d) == {d[i].k : i \in 1..Len(d)}
AfterFetch == pressed /\ pc # "fetch"

\* C2: after any fetch the stored result set holds exactly the tickers the
\* fetch loaded a non-empty series for, every stored series is non-empty, and
\* the summary table has one row per stored ticker.
C2_StoredSetIsTheNonEmptyFetches ==
  /\ \A n \in 1..Len(Stored) : ~Empty(Stored[n].v)
  /\ AfterFetch => KeySet(Stored) = KeySet(stock_data)
  /\ shown # <<>> => [i \in 1..Len(shown) |-> shown[i].Stock] = DictKeys(Stored)

\* C4: when generate_content raises or its reply has no readable text, the
\* verdict is still {action: "Error", ...}, no exception ends the run, and the
\* ticker has its row.
C4_ModelFailureDegradesToError ==
  response.kind \in {"raises", "no_text"} =>
     /\ exc = NoExc
     /\ Recommendation(result) = "Error"
     /\ ai = Len(overall_results) + 1
     /\ overall_results[ai - 1].Recommendation = "Error"

\* C9: no temporary image file is left behind, on any path.
C9_NoTemporaryFileRemains == tmpfiles = 0

\* C10: after any fetch the store holds the tickers and series of that fetch and
\* nothing of an earlier one; when the fetch loaded nothing the store is empty
\* and nothing is analysed or shown.
C10_FetchReplacesTheStore ==
  AfterFetch =>
     /\ \A n \in 1..Len(Stored) :
           /\ DictHas(stock_data, Stored[n].k)
           /\ DictGet(stock_data, Stored[n].k) = Stored[n].v
     /\ Len(stock_data) = 0 =>
           (Len(Stored) = 0 /\ overall_results = <<>> /\ shown = <<>> /\ pc # "analyze")

====
